---- MODULE Spec2Model ----
(***************************************************************************)
(* Temperature simulator: configuration loader, reading generator and      *)
(* NDJSON sink, with the command-line run (load, generate, save) and the   *)
(* HTTP handler (decode, generate, respond) that drive them.               *)
(*                                                                         *)
(* Numbers.  A temperature is a float64 in the source.  Here it is an      *)
(* integer counting steps of 0.005 degree, so that 25 steps are 1/8 degree *)
(* and 2 steps are 0.01 degree.  The inputs are multiples of 1/8 degree:   *)
(* float64 holds them, their sums and the quotients used here exactly, so  *)
(* the integer arithmetic below is the arithmetic of the code.             *)
(* An instant is an integer counting half seconds; a formatted time stamp  *)
(* ("2006-01-02 15:04:05") has whole seconds and is held as their count.   *)
(***************************************************************************)
EXTENDS Integers, Sequences, FiniteSets, TLC

\* ------------------------------------------------------------------ bounds
\* Largest totalReadings of a run.
MaxTicks == 3
\* Capacity of the sink's buffered writer, in write units (a JSON object or
\* a newline); 4096 bytes in the source.
BufferUnits == 3
\* Most draws of one generator call of the two-run specification.
MaxDraws == 2
\* totalReadings of the long runs: an hour of ticks, the ramp of the next
\* hour and one tick after it.
MaxRampTicks == 66

\* --------------------------------------------------------- program constants
readingsPerHour == 60
increasePeriodMinutes == 5
\* Seconds of one tick: 60 * time.Second, slept or added to the clock.
TickSeconds == 60
\* One tick in instants (half seconds).
TickInstants == 2 * TickSeconds

Nil == "nil"
ErrOpen == "unable to open configuration file"
ErrDecode == "error decoding configuration JSON"
ErrNoSensors == "no sensors found in configuration"
ErrBadRequest == "Invalid request payload"
ErrCreate == "error creating JSON file"
ErrWrite == "error writing JSON data"
ErrNewline == "error writing newline"

\* ------------------------------------------------------------------ inputs
SensorA == [name |-> "SensorA", id |-> "001", version |-> "v1.0", location |-> "LocationA"]
SensorB == [name |-> "SensorB", id |-> "002", version |-> "v1.1", location |-> "LocationB"]
\* A second sensor named like SensorA: names are not unique in the data model.
SensorA2 == [name |-> "SensorA", id |-> "003", version |-> "v2.0", location |-> "LocationC"]

\* The sensor lists of the runs: none, one, two in either order, and two
\* sensors of the same name.
SensorLists ==
    {<<>>, <<SensorA>>, <<SensorA, SensorB>>, <<SensorB, SensorA>>, <<SensorA, SensorA2>>}

\* The Config struct; the output file name plays no part in the model.
Configs ==
    [totalReadings : (0 - 1)..MaxTicks,
     startingTemp : {100, 250},
     maxTempIncrease : {0, 125},
     tempFluctuation : {0, 100},
     minTemp : {0, 200},
     maxTemp : {0, 200},
     simulate : BOOLEAN]

\* What a decoder leaves in a struct it could not fill.
ZeroConfig ==
    [totalReadings |-> 0, startingTemp |-> 0, maxTempIncrease |-> 0,
     tempFluctuation |-> 0, minTemp |-> 0, maxTemp |-> 0, simulate |-> FALSE]

\* A configuration source: a file of the command line run, or a request body.
\* Only a file can be unreadable.
Sources(e) ==
    {[kind |-> k, config |-> ZeroConfig, sensors |-> <<>>]
        : k \in (IF e = "cli" THEN {"unreadable", "malformed"} ELSE {"malformed"})}
    \cup {[kind |-> "ok", config |-> c, sensors |-> s] : c \in Configs, s \in SensorLists}

\* The two generators of the repository: sensor state in a slice, by index
\* (with a random source of its own), or in a map, by sensor name (drawing
\* from the package-level source).
Variants == {"indexed", "named"}
Entries == {"cli", "api"}

\* r.Float64() is in [0, 1): the draws of the model, in quarters.
DrawSet == {0, 3}
\* Wall-clock time a tick takes beyond its 60 s sleep, in instants.
Overruns == {0, 1}

VARIABLES
    variant,        \* which generator is linked
    entry,          \* "cli" or "api"
    source,         \* the configuration file or request body
    overrun,        \* what a real-time tick takes beyond the sleep
    pc,             \* position of the run
    cfg,            \* the loaded Config
    sensors,        \* the loaded sensor list, the generator's argument
    loadErr,        \* error of the load stage
    sensorTemps,    \* generator: current temperature per sensor key
    data,           \* generator: the readings appended so far
    producedAt,     \* history: the tick (loopCount) each reading was appended in
    fluctuations,   \* history: the fluctuation drawn for each reading
    loopCount,      \* generator: tick counter
    idx,            \* generator: position in the sensor list (1-based)
    currentTime,    \* generator: the clock of the run
    increasePhase,  \* generator: ramp phase of the current tick
    now,            \* the wall clock
    genErr,         \* error returned by the generator
    sink,           \* outcome of SaveToJSON
    rnd             \* the random sources of two concurrent generator calls

vars ==
    <<variant, entry, source, overrun, pc, cfg, sensors, loadErr, sensorTemps,
      data, producedAt, fluctuations, loopCount, idx, currentTime,
      increasePhase, now, genErr, sink, rnd>>

\* All of it but the random sources.
runVars ==
    <<variant, entry, source, overrun, pc, cfg, sensors, loadErr, sensorTemps,
      data, producedAt, fluctuations, loopCount, idx, currentTime,
      increasePhase, now, genErr, sink>>

\* ------------------------------------------------------------------ loader
\* Fault: the loader does not look at the number of sensors.
LoadWithoutSensorCheck(src) ==
    IF src.kind = "unreadable" THEN [err |-> "unable to open configuration file", config |-> src.config, sensors |-> <<>>]
    ELSE IF src.kind = "malformed" THEN [err |-> "error decoding configuration JSON", config |-> src.config, sensors |-> <<>>]
    ELSE [err |-> "nil", config |-> src.config, sensors |-> src.sensors]

\* LoadConfigAndSensors: the error and the result for a source.
LoadConfigAndSensors(src) ==
    IF src.kind = "unreadable" THEN [err |-> ErrOpen, config |-> ZeroConfig, sensors |-> <<>>]
    ELSE IF src.kind = "malformed" THEN [err |-> ErrDecode, config |-> ZeroConfig, sensors |-> <<>>]
    ELSE IF Len(src.sensors) = 0 THEN [err |-> ErrNoSensors, config |-> ZeroConfig, sensors |-> <<>>]
    ELSE [err |-> Nil, config |-> src.config, sensors |-> src.sensors]

\* The handler's decoding of the request body: no check of the sensor list.
DecodeRequest(src) ==
    IF src.kind = "ok"
    THEN [err |-> Nil, config |-> src.config, sensors |-> src.sensors]
    ELSE [err |-> ErrBadRequest, config |-> ZeroConfig, sensors |-> <<>>]

\* The random sources before any generator call of the two-run
\* specification: the package-level source, and per call its position, whether
\* it made a source of its own, that source, the state its draws start from
\* and the draws it got.
NoRuns ==
    [package |-> 0,
     runs |-> [r \in {1, 2} |->
                  [at |-> "idle", created |-> FALSE, own |-> 0, first |-> 0,
                   draws |-> <<>>]]]

NoSink == [called |-> FALSE, err |-> Nil, file |-> <<>>, created |-> FALSE,
           writeFailed |-> FALSE, closeFailed |-> FALSE]

Init ==
    /\ variant \in Variants
    /\ entry \in Entries
    /\ source \in Sources(entry)
    /\ overrun \in (IF source.config.simulate THEN {0} ELSE Overruns)
    /\ pc = "start"
    /\ cfg = ZeroConfig
    /\ sensors = <<>>
    /\ loadErr = Nil
    /\ sensorTemps = <<>>
    /\ data = <<>>
    /\ producedAt = <<>>
    /\ fluctuations = <<>>
    /\ loopCount = 0
    /\ idx = 0
    /\ currentTime = 0
    /\ increasePhase = FALSE
    /\ now = TickInstants
    /\ genErr = Nil
    /\ sink = NoSink
    /\ rnd = NoRuns

\* Fault: main goes on after a failed load.
LoadNotFatal ==
    /\ pc = "start"
    /\ entry = "cli"
    /\ LET r == LoadConfigAndSensors(source) IN
        /\ loadErr' = r.err
        /\ cfg' = r.config
        /\ sensors' = r.sensors
        /\ pc' = "loaded"
    /\ UNCHANGED <<rnd, variant, entry, source, overrun, sensorTemps, data, producedAt,
                   fluctuations, loopCount, idx, currentTime, increasePhase, now, genErr, sink>>

\* main: sensorConfig, err := simulator.LoadConfigAndSensors(file); a failure is fatal.
Load ==
    /\ pc = "start"
    /\ entry = "cli"
    /\ LET r == LoadConfigAndSensors(source) IN
        /\ loadErr' = r.err
        /\ cfg' = r.config
        /\ sensors' = r.sensors
        /\ pc' = IF r.err = Nil THEN "loaded" ELSE "failed"
    /\ UNCHANGED <<rnd, variant, entry, source, overrun, sensorTemps, data, producedAt,
                   fluctuations, loopCount, idx, currentTime, increasePhase, now, genErr, sink>>

\* HTTP handler: decode the body; a failure answers 400.
Decode ==
    /\ pc = "start"
    /\ entry = "api"
    /\ LET r == DecodeRequest(source) IN
        /\ loadErr' = r.err
        /\ cfg' = r.config
        /\ sensors' = r.sensors
        /\ pc' = IF r.err = Nil THEN "loaded" ELSE "failed"
    /\ UNCHANGED <<rnd, variant, entry, source, overrun, sensorTemps, data, producedAt,
                   fluctuations, loopCount, idx, currentTime, increasePhase, now, genErr, sink>>

\* --------------------------------------------------------------- generator
\* The key of the i-th sensor's state: its index in the slice, or its name
\* in the map.
StateKey(i) == IF variant = "indexed" THEN i ELSE sensors[i].name

\* sensorTemps after the initialisation loop.
InitialTemps ==
    IF variant = "indexed"
    THEN [i \in 1..Len(sensors) |-> cfg.startingTemp]
    ELSE [n \in {sensors[i].name : i \in 1..Len(sensors)} |-> cfg.startingTemp]

\* make([]TemperatureReading, 0, totalReadings*len(sensors)) panics on a
\* negative capacity; the generator that appends to a nil slice does not.
MakePanics == variant = "indexed" /\ cfg.totalReadings * Len(sensors) < 0

\* Fault: the loop stops one tick early.
LoopStopsEarly(count, total) == count + 1 < total

\* Fault: the loop test is inclusive.
LoopInclusive(count, total) == count <= total

\* for loopCount := 0; loopCount < totalReadings; loopCount++
LoopContinues(count, total) == count < total

\* increaseAmountPerMinute := maxTempIncrease / float64(increasePeriodMinutes)
IncreaseAmountPerMinute(maxTempIncrease) == maxTempIncrease \div increasePeriodMinutes

\* fluctuation := r.Float64()*2*tempFluctuation - tempFluctuation, for a
\* draw of u quarters.
Fluctuation(u, tempFluctuation) == (u * 2 * tempFluctuation) \div 4 - tempFluctuation

\* Fault: the ramp lasts one tick longer.
IncreasePhaseInclusive(t) == t % readingsPerHour <= increasePeriodMinutes

\* Fault: the ramp runs in the first hour only.
IncreasePhaseOnce(t) == t < increasePeriodMinutes

\* increasePhase := loopCount%readingsPerHour < increasePeriodMinutes
IncreasePhase(t) == t % readingsPerHour < increasePeriodMinutes

\* Fault: the upper bound is not enforced.
ClampLowOnly(temp, minTemp, maxTemp) == IF temp < minTemp THEN minTemp ELSE temp

\* if temp < minTemp { temp = minTemp } else if temp > maxTemp { temp = maxTemp }
Clamp(temp, minTemp, maxTemp) ==
    IF temp < minTemp THEN minTemp
    ELSE IF temp > maxTemp THEN maxTemp
    ELSE temp

\* Fault: outside the ramp phase the increment is taken back.
NextTempCools(temp, u, phase) ==
    LET fluctuated == temp + Fluctuation(u, cfg.tempFluctuation)
        ramped == IF phase
                  THEN fluctuated + IncreaseAmountPerMinute(cfg.maxTempIncrease)
                  ELSE fluctuated - IncreaseAmountPerMinute(cfg.maxTempIncrease)
    IN Clamp(ramped, cfg.minTemp, cfg.maxTemp)

\* The temperature of one reading: fluctuation, ramp, clamp.
NextTemp(temp, u, phase) ==
    LET fluctuated == temp + Fluctuation(u, cfg.tempFluctuation)
        ramped == IF phase
                  THEN fluctuated + IncreaseAmountPerMinute(cfg.maxTempIncrease)
                  ELSE fluctuated
    IN Clamp(ramped, cfg.minTemp, cfg.maxTemp)

\* currentTime.Format(timeFormat): the instant cut to whole seconds.
Format(t) == t \div 2

\* Fault: the clock is stepped twice per tick.
AdvanceClockTwice(clock, wall) ==
    IF cfg.simulate THEN clock + 2 * TickInstants ELSE wall + TickInstants

\* Fault: the result of currentTime.Add is dropped.
AdvanceClockDropsStep(clock, wall) == IF cfg.simulate THEN clock ELSE wall

\* The clock after the step of one tick: the simulated clock moves by 60 s;
\* otherwise the wall clock is read after the sleep.
AdvanceClock(clock, wall) == IF cfg.simulate THEN clock + TickInstants ELSE wall

\* Fault: every reading carries the first sensor of the list.
ReadingOfFirstSensor(clock, temp, i) ==
    [time |-> clock \div 2, temperature |-> temp, sensor |-> sensors[1]]

\* Fault: the sensors are walked from the end of the list.
ReadingReversed(clock, temp, i) ==
    [time |-> clock \div 2, temperature |-> temp,
     sensor |-> sensors[Len(sensors) + 1 - i]]

\* The reading appended for sensor i.
Reading(clock, temp, i) ==
    [time |-> Format(clock), temperature |-> temp, sensor |-> sensors[i]]

\* Entry of GenerateTemperatureReadings, up to the loop.
GenerateBegin ==
    /\ pc = "loaded"
    /\ IF MakePanics
       THEN /\ pc' = "panic"
            /\ UNCHANGED <<sensorTemps, currentTime>>
       ELSE /\ pc' = "loop"
            /\ sensorTemps' = InitialTemps
            /\ currentTime' = IF cfg.simulate THEN now ELSE 0
    /\ data' = <<>>
    /\ producedAt' = <<>>
    /\ fluctuations' = <<>>
    /\ loopCount' = 0
    /\ UNCHANGED <<rnd, variant, entry, source, overrun, cfg, sensors, loadErr, idx,
                   increasePhase, now, genErr, sink>>

\* Head of one iteration of the outer loop: sleep, clock, ramp phase.
Tick ==
    /\ pc = "loop"
    /\ LoopContinues(loopCount, cfg.totalReadings)
    /\ now' = IF cfg.simulate THEN now ELSE now + TickInstants + overrun
    /\ currentTime' = AdvanceClock(currentTime, now')
    /\ increasePhase' = IncreasePhase(loopCount)
    /\ IF Len(sensors) = 0
       THEN loopCount' = loopCount + 1 /\ pc' = "loop" /\ idx' = idx
       ELSE loopCount' = loopCount /\ pc' = "inner" /\ idx' = 1
    /\ UNCHANGED <<rnd, variant, entry, source, overrun, cfg, sensors, loadErr,
                   sensorTemps, data, producedAt, fluctuations, genErr, sink>>

\* One iteration of the inner loop: the reading of sensor idx.
Emit ==
    /\ pc = "inner"
    /\ \E u \in DrawSet :
        LET temp == NextTemp(sensorTemps[StateKey(idx)], u, increasePhase) IN
        /\ sensorTemps' = [sensorTemps EXCEPT ![StateKey(idx)] = temp]
        /\ data' = Append(data, Reading(currentTime, temp, idx))
        /\ producedAt' = Append(producedAt, loopCount)
        /\ fluctuations' = Append(fluctuations, Fluctuation(u, cfg.tempFluctuation))
    /\ IF idx = Len(sensors)
       THEN loopCount' = loopCount + 1 /\ pc' = "loop" /\ idx' = idx
       ELSE loopCount' = loopCount /\ pc' = "inner" /\ idx' = idx + 1
    /\ UNCHANGED <<rnd, variant, entry, source, overrun, cfg, sensors, loadErr,
                   currentTime, increasePhase, now, genErr, sink>>

\* Fault: the generator returns an error.
GenerateReturnsError ==
    /\ pc = "loop"
    /\ ~LoopContinues(loopCount, cfg.totalReadings)
    /\ pc' = "generated"
    /\ genErr' = "error generating temperature readings"
    /\ UNCHANGED <<rnd, variant, entry, source, overrun, cfg, sensors, loadErr,
                   sensorTemps, data, producedAt, fluctuations, loopCount, idx,
                   currentTime, increasePhase, now, sink>>

\* return data, nil
GenerateReturn ==
    /\ pc = "loop"
    /\ ~LoopContinues(loopCount, cfg.totalReadings)
    /\ pc' = "generated"
    /\ genErr' = Nil
    /\ UNCHANGED <<rnd, variant, entry, source, overrun, cfg, sensors, loadErr,
                   sensorTemps, data, producedAt, fluctuations, loopCount, idx,
                   currentTime, increasePhase, now, sink>>

\* -------------------------------------------------------------------- sink
\* Fault: the third decimal is cut off.
MarshalTruncates(t) == t \div 2

\* Fault: the temperature is formatted with one decimal.
MarshalOneDecimal(t) ==
    LET q == t \div 20 IN
    IF t % 20 < 10 THEN 10 * q
    ELSE IF t % 20 > 10 THEN 10 * (q + 1)
    ELSE IF q % 2 = 0 THEN 10 * q ELSE 10 * (q + 1)

\* Temperature.MarshalJSON: strconv.FormatFloat(t, 'f', 2, 64), the numeral
\* with two decimals nearest to t, held as its count of hundredths.  A
\* temperature of the model is a whole number of half hundredths, so an odd
\* one lies midway between two numerals and goes to the even one.
MarshalJSON(t) ==
    LET q == t \div 2 IN
    IF t % 2 = 0 THEN q
    ELSE IF q % 2 = 0 THEN q ELSE q + 1

\* Temperature.UnmarshalJSON: strconv.ParseFloat of a numeral of hundredths.
UnmarshalJSON(h) == 2 * h

\* json.Marshal(reading): the JSON object of a reading.
MarshalReading(r) ==
    [time |-> r.time, temperature |-> MarshalJSON(r.temperature), sensor |-> r.sensor]

\* json.Unmarshal(line, &reading)
UnmarshalReading(j) ==
    [time |-> j.time, temperature |-> UnmarshalJSON(j.temperature), sensor |-> j.sensor]

\* The units SaveToJSON hands to its writer: writer.Write(jsonData) and
\* writer.WriteByte('\n').
Obj(j) == <<"obj", j>>
NL == <<"nl">>

\* The destination of a save: whether the file can be created, how many
\* units it takes before a write to it fails (a write that does not fit is
\* cut short and fails), whether its close succeeds.
Destinations(d) ==
    {[creatable |-> FALSE, space |-> 0, closable |-> TRUE]}
    \cup {[creatable |-> TRUE, space |-> s, closable |-> TRUE]
            : s \in {x \in {0, 1, BufferUnits, 2 * Len(d) - 1, 2 * Len(d)}
                        : x >= 0 /\ x <= 2 * Len(d)}}
    \cup {[creatable |-> TRUE, space |-> 2 * Len(d), closable |-> FALSE]}

\* writer.Flush(): the buffered units go to the file; a failure is kept in
\* the writer and the units not written stay in the buffer.
Flush(w, space) ==
    IF w.failed \/ Len(w.buf) = 0 THEN w
    ELSE LET room == space - Len(w.file) IN
         IF Len(w.buf) <= room
         THEN [w EXCEPT !.file = @ \o w.buf, !.buf = <<>>]
         ELSE [w EXCEPT !.file = @ \o SubSeq(w.buf, 1, room),
                        !.buf = SubSeq(w.buf, room + 1, Len(w.buf)),
                        !.failed = TRUE]

\* writer.Write / writer.WriteByte of one unit: a full buffer is flushed
\* first, and the unit is dropped when the writer has failed.
WriteUnit(w, u, space) ==
    LET flushed == IF Len(w.buf) >= BufferUnits THEN Flush(w, space) ELSE w IN
    IF flushed.failed THEN flushed ELSE [flushed EXCEPT !.buf = Append(@, u)]

\* The loop of SaveToJSON from reading k on; ret is the error it returns.
RECURSIVE WriteLoop(_, _, _, _)
WriteLoop(w, d, k, space) ==
    IF k > Len(d) THEN w
    ELSE LET w1 == WriteUnit(w, Obj(MarshalReading(d[k])), space) IN
         IF w1.failed THEN [w1 EXCEPT !.ret = ErrWrite]
         ELSE LET w2 == WriteUnit(w1, NL, space) IN
              IF w2.failed THEN [w2 EXCEPT !.ret = ErrNewline]
              ELSE WriteLoop(w2, d, k + 1, space)

\* SaveToJSON(data, filename): the error returned and the file left behind.
\* The deferred Flush and Close run after the return value is set; their
\* errors are logged.
SaveToJSON(d, dest) ==
    IF ~dest.creatable
    THEN [called |-> TRUE, err |-> ErrCreate, file |-> <<>>, created |-> FALSE,
          writeFailed |-> FALSE, closeFailed |-> FALSE]
    ELSE LET looped == WriteLoop([file |-> <<>>, buf |-> <<>>, failed |-> FALSE,
                                  ret |-> Nil], d, 1, dest.space)
             flushed == Flush(looped, dest.space)
         IN [called |-> TRUE, err |-> looped.ret, file |-> flushed.file,
             created |-> TRUE, writeFailed |-> flushed.failed,
             closeFailed |-> ~dest.closable]

\* main: simulator.SaveToJSON(data, config.OutputFileName); a failure is fatal.
Save ==
    /\ pc = "generated"
    /\ entry = "cli"
    /\ \E dest \in Destinations(data) :
        /\ sink' = SaveToJSON(data, dest)
        /\ pc' = IF sink'.err = Nil THEN "done" ELSE "failed"
    /\ UNCHANGED <<rnd, variant, entry, source, overrun, cfg, sensors, loadErr,
                   sensorTemps, data, producedAt, fluctuations, loopCount, idx,
                   currentTime, increasePhase, now, genErr>>

\* HTTP handler: the readings are the body of the answer; nothing is saved.
Respond ==
    /\ pc = "generated"
    /\ entry = "api"
    /\ pc' = "done"
    /\ UNCHANGED <<rnd, variant, entry, source, overrun, cfg, sensors, loadErr,
                   sensorTemps, data, producedAt, fluctuations, loopCount, idx,
                   currentTime, increasePhase, now, genErr, sink>>

Next ==
    \/ Load
    \/ Decode
    \/ GenerateBegin
    \/ Tick
    \/ Emit
    \/ GenerateReturn
    \/ Save
    \/ Respond

Spec == Init /\ [][Next]_vars

\* ------------------------------------------- two concurrent generator calls
\* The HTTP server runs its handler once per request, concurrently: two calls
\* of GenerateTemperatureReadings and the random sources they draw from.
Runs == {1, 2}

\* The states of a random source (a linear congruential stand-in for the
\* generator of math/rand): a seed picks one, every draw moves to the next.
SourceStates == 0..7
SourceStep(s) == (5 * s + 3) % 8
\* Float64() of a source that has reached state s, in quarters.
SourceFloat64(s) == s \div 2

\* r.Float64() on the source of run r.
SeededDraw(r) ==
    LET s == SourceStep(rnd.runs[r].own) IN
    [rnd EXCEPT !.runs[r].own = s, !.runs[r].draws = Append(@, SourceFloat64(s))]

\* rand.Float64() on the package-level source, by run r.
PackageDraw(r) ==
    LET s == SourceStep(rnd.package) IN
    [rnd EXCEPT !.package = s, !.runs[r].draws = Append(@, SourceFloat64(s))]

\* The program before any request: one package-level source, seeded at
\* start-up, and no generator call.
InitRuns ==
    /\ variant \in Variants
    /\ entry = "api"
    /\ source = [kind |-> "ok", config |-> ZeroConfig, sensors |-> <<>>]
    /\ overrun = 0
    /\ pc = "start"
    /\ cfg = ZeroConfig
    /\ sensors = <<>>
    /\ loadErr = Nil
    /\ sensorTemps = <<>>
    /\ data = <<>>
    /\ producedAt = <<>>
    /\ fluctuations = <<>>
    /\ loopCount = 0
    /\ idx = 0
    /\ currentTime = 0
    /\ increasePhase = FALSE
    /\ now = TickInstants
    /\ genErr = Nil
    /\ sink = NoSink
    /\ rnd \in {[NoRuns EXCEPT !.package = s] : s \in SourceStates}

\* Entry of a call: the slice generator makes a source and seeds it with the
\* time of the call; the map generator makes none.
RunBegin(r) ==
    /\ rnd.runs[r].at = "idle"
    /\ IF variant = "indexed"
       THEN \E seed \in SourceStates :
               rnd' = [rnd EXCEPT !.runs[r] =
                          [at |-> "running", created |-> TRUE, own |-> seed,
                           first |-> seed, draws |-> <<>>]]
       ELSE rnd' = [rnd EXCEPT !.runs[r] =
                       [at |-> "running", created |-> FALSE, own |-> 0,
                        first |-> rnd.package, draws |-> <<>>]]
    /\ UNCHANGED runVars

\* The draw of one reading.
RunDraw(r) ==
    /\ rnd.runs[r].at = "running"
    /\ Len(rnd.runs[r].draws) < MaxDraws
    /\ rnd' = IF variant = "indexed" THEN SeededDraw(r) ELSE PackageDraw(r)
    /\ UNCHANGED runVars

\* The call returns.
RunReturn(r) ==
    /\ rnd.runs[r].at = "running"
    /\ rnd' = [rnd EXCEPT !.runs[r].at = "returned"]
    /\ UNCHANGED runVars

NextRuns ==
    \/ \E r \in Runs : RunBegin(r)
    \/ \E r \in Runs : RunDraw(r)
    \/ \E r \in Runs : RunReturn(r)

SpecRuns == InitRuns /\ [][NextRuns]_vars

\* ------------------------------------------------ long runs of the generator
\* GenerateTemperatureReadings called directly, as the test does, in simulate
\* mode and without fluctuation, for more than an hour of ticks: the ramp of
\* the first hour, the flat rest of it, and the ramp of the second hour.
RampSensorLists == {<<SensorA>>, <<SensorA, SensorB>>, <<SensorA, SensorA2>>}

\* Bounds the temperature stays inside, and bounds it is pushed against.
RampConfigs ==
    {[totalReadings |-> MaxRampTicks, startingTemp |-> 100, maxTempIncrease |-> m,
      tempFluctuation |-> 0, minTemp |-> b[1], maxTemp |-> b[2], simulate |-> TRUE]
        : m \in {125, 250}, b \in {<<0 - 4000, 4000>>, <<0, 200>>}}

InitRamp ==
    /\ variant \in Variants
    /\ entry = "cli"
    /\ \E c \in RampConfigs, s \in RampSensorLists :
        /\ source = [kind |-> "ok", config |-> c, sensors |-> s]
        /\ cfg = c
        /\ sensors = s
    /\ overrun = 0
    /\ pc = "loaded"
    /\ loadErr = Nil
    /\ sensorTemps = <<>>
    /\ data = <<>>
    /\ producedAt = <<>>
    /\ fluctuations = <<>>
    /\ loopCount = 0
    /\ idx = 0
    /\ currentTime = 0
    /\ increasePhase = FALSE
    /\ now = TickInstants
    /\ genErr = Nil
    /\ sink = NoSink
    /\ rnd = NoRuns

NextRamp ==
    \/ GenerateBegin
    \/ Tick
    \/ Emit
    \/ GenerateReturn

SpecRamp == InitRamp /\ [][NextRamp]_vars

\* ------------------------------------------------------------------ claims
\* The generator has been entered.
GenCalled == pc \in {"loop", "inner", "panic", "generated", "done"} \/ sink.called

\* The generator has returned.
Generated == pc \in {"generated", "done"} \/ sink.called

\* The inputs the contract calls valid.
ValidInput == cfg.totalReadings >= 0 /\ cfg.minTemp <= cfg.maxTemp

\* C1: for every valid input (any sensor list, totalReadings >= 0,
\* minTemp <= maxTemp, either mode) the generator returns exactly
\* totalReadings * len(sensors) readings.
C1_OutputLength ==
    (Generated /\ ValidInput) => Len(data) = cfg.totalReadings * Len(sensors)

C1_Witness ==
    /\ Generated
    /\ ValidInput
    /\ cfg.totalReadings >= 2
    /\ Len(sensors) = 2
    /\ Len(data) = 2 * cfg.totalReadings

\* C2: whenever minTemp <= maxTemp, every reading emitted, at every tick,
\* for every sensor and every sequence of draws, has
\* minTemp <= temperature <= maxTemp.
C2_WithinBounds ==
    cfg.minTemp <= cfg.maxTemp =>
        \A k \in 1..Len(data) :
            cfg.minTemp <= data[k].temperature /\ data[k].temperature <= cfg.maxTemp

\* A run that starts above maxTemp and one that was pushed down to minTemp.
C2_Witness ==
    /\ cfg.minTemp < cfg.maxTemp
    /\ cfg.startingTemp > cfg.maxTemp
    /\ Len(data) >= 2
    /\ data[1].temperature = cfg.maxTemp
    /\ \E k \in 1..Len(data) : data[k].temperature = cfg.minTemp

\* C3: the output is ordered tick by tick: the reading at position
\* t * len(sensors) + i belongs to sensors[i] and was produced at tick t, for
\* every tick t in 0..totalReadings-1 and every sensor index i.
C3_TickMajorOrder ==
    /\ \A k \in 1..Len(data) :
        /\ data[k].sensor = sensors[((k - 1) % Len(sensors)) + 1]
        /\ producedAt[k] = (k - 1) \div Len(sensors)
    /\ Len(producedAt) = Len(data)
    /\ (Generated /\ cfg.totalReadings >= 0) =>
            Len(data) = cfg.totalReadings * Len(sensors)

C3_Witness ==
    /\ Generated
    /\ sensors = <<SensorB, SensorA>>
    /\ cfg.totalReadings >= 2
    /\ data[3].sensor = SensorB
    /\ data[4].sensor = SensorA
    /\ producedAt[4] = 1

\* C4: with totalReadings == 0 the generator returns an empty sequence and
\* a nil error, whatever the sensor list and the other parameters: it does
\* not panic and executes no tick.
C4_ZeroTicksEmpty ==
    (GenCalled /\ cfg.totalReadings = 0) =>
        /\ pc \notin {"inner", "panic"}
        /\ loopCount = 0
        /\ data = <<>>
        /\ genErr = Nil

C4_Witness ==
    /\ Generated
    /\ cfg.totalReadings = 0
    /\ Len(sensors) = 2
    /\ data = <<>>
    /\ genErr = Nil

\* Seconds between the readings at positions k and k + len(sensors): two
\* consecutive readings of one sensor.
Spacing(k) == data[k + Len(sensors)].time - data[k].time

\* C5 as stated: for every sensor the time stamps strictly increase with the
\* tick and two consecutive readings of the same sensor are exactly one tick
\* (60 seconds) apart.
C5_ExactlyOneTickApart ==
    \A k \in 1..Len(data) :
        k + Len(sensors) <= Len(data) => Spacing(k) = TickSeconds

\* C5, amended: for every sensor the time stamps strictly increase with the
\* tick; two consecutive readings of the same sensor are exactly 60 seconds
\* apart in simulate mode and at least 60 seconds apart otherwise, where
\* each stamp is the wall clock read after a 60 second sleep.
C5_TimeOrdered ==
    \A k \in 1..Len(data) :
        k + Len(sensors) <= Len(data) =>
            /\ data[k].time < data[k + Len(sensors)].time
            /\ Spacing(k) >= TickSeconds
            /\ cfg.simulate => Spacing(k) = TickSeconds

C5_Witness ==
    /\ Generated
    /\ cfg.simulate
    /\ Len(sensors) = 2
    /\ cfg.totalReadings >= 3
    /\ data[3].time = data[1].time + TickSeconds
    /\ data[5].time = data[3].time + TickSeconds

\* C6: when minTemp > maxTemp the run is rejected with an error before
\* generation begins: no tick is executed and no reading is emitted.
C6_InvalidBoundsRejected ==
    cfg.minTemp > cfg.maxTemp =>
        /\ pc \notin {"inner", "done"}
        /\ loopCount = 0
        /\ data = <<>>
        /\ Generated => genErr # Nil

\* C7: LoadConfigAndSensors fails with a different error for each of its
\* three failure cases (the source cannot be opened, is malformed, parses
\* but holds no sensor), and when it returns no error the sensor list it
\* returns is not empty.
C7_LoaderErrors ==
    (entry = "cli" /\ pc # "start") =>
        /\ loadErr = ErrOpen <=> source.kind = "unreadable"
        /\ loadErr = ErrDecode <=> source.kind = "malformed"
        /\ loadErr = ErrNoSensors <=> (source.kind = "ok" /\ Len(source.sensors) = 0)
        /\ Cardinality({ErrOpen, ErrDecode, ErrNoSensors, Nil}) = 4
        /\ loadErr = Nil => (Len(sensors) > 0 /\ sensors = source.sensors)
        /\ loadErr # Nil <=> pc = "failed" /\ ~sink.called

C7_Witness ==
    /\ entry = "cli"
    /\ pc = "failed"
    /\ source.kind = "ok"
    /\ source.config.totalReadings > 0
    /\ loadErr = ErrNoSensors

\* The output a complete save leaves: for each reading its JSON object and
\* a newline, in the order of the input.
RECURSIVE Ndjson(_)
Ndjson(d) ==
    IF d = <<>> THEN <<>>
    ELSE <<Obj(MarshalReading(Head(d))), NL>> \o Ndjson(Tail(d))

\* C8: after a successful SaveToJSON(data, file) the file holds exactly
\* len(data) lines, line k is the JSON object of data[k], in the order of
\* the input, and nothing else.
C8_FileHoldsEveryReading ==
    (sink.called /\ sink.err = Nil) =>
        /\ Len(sink.file) = 2 * Len(data)
        /\ \A k \in 1..Len(data) :
            /\ sink.file[2 * k - 1] = Obj(MarshalReading(data[k]))
            /\ sink.file[2 * k] = NL

\* C9: SaveToJSON never reports success for a truncated output: when a
\* write to the destination fails, the final flush and the close included,
\* it returns an error; a nil return means every reading reached the file.
C9_FailureIsReported ==
    sink.called =>
        /\ (sink.writeFailed \/ sink.closeFailed) => sink.err # Nil
        /\ sink.err = Nil => sink.file = Ndjson(data)

\* The reading that comes back from the JSON object of reading r.
RoundTrip(r) == UnmarshalReading(MarshalReading(r))

\* C10 as stated: serializing a reading and parsing the result back yields
\* a reading equal to the original in its time string, its temperature and
\* its four sensor fields, for every reading the generator can emit.
C10_RoundTripExact ==
    \A k \in 1..Len(data) : RoundTrip(data[k]) = data[k]

\* C10, amended: the reading parsed back equals the original in its time
\* string and its four sensor fields; its temperature is the original
\* rounded to two decimals: it is a whole number of hundredths, at most
\* 0.005 from the original, formats to the same numeral, and equals the
\* original when that is a whole number of hundredths.
C10_RoundTripTwoDecimals ==
    \A k \in 1..Len(data) :
        LET r == data[k]
            back == RoundTrip(r)
        IN /\ back.time = r.time
           /\ back.sensor.name = r.sensor.name
           /\ back.sensor.id = r.sensor.id
           /\ back.sensor.version = r.sensor.version
           /\ back.sensor.location = r.sensor.location
           /\ back.temperature % 2 = 0
           /\ back.temperature - r.temperature \in {0 - 1, 0, 1}
           /\ MarshalJSON(back.temperature) = MarshalJSON(r.temperature)
           /\ r.temperature % 2 = 0 => back = r

\* A reading whose temperature has a third decimal, and one that has none.
C10_Witness ==
    /\ Len(data) >= 2
    /\ \E k \in 1..Len(data) :
        /\ data[k].temperature % 2 = 1
        /\ RoundTrip(data[k]).temperature # data[k].temperature
    /\ \E k \in 1..Len(data) :
        /\ data[k].temperature % 2 = 0
        /\ data[k].temperature \notin {cfg.minTemp, cfg.maxTemp}
        /\ RoundTrip(data[k]) = data[k]

\* The temperature of the sensor at index i after tick t as its own inputs
\* give it: startingTemp, the bounds, the ramp and the fluctuations drawn for
\* index i at the ticks 0..t.
RECURSIVE OwnTemp(_, _)
OwnTemp(i, t) ==
    IF t < 0 THEN cfg.startingTemp
    ELSE Clamp(OwnTemp(i, t - 1) + fluctuations[t * Len(sensors) + i]
                   + (IF IncreasePhase(t)
                      THEN IncreaseAmountPerMinute(cfg.maxTempIncrease) ELSE 0),
               cfg.minTemp, cfg.maxTemp)

\* C11: the temperatures emitted for the sensor at index i depend only on
\* startingTemp, the bounds, the ramp and the fluctuations drawn for index i,
\* also when two sensors of the list have the same name (stated for bounds
\* with minTemp <= maxTemp).
C11_IndependentByIndex ==
    cfg.minTemp <= cfg.maxTemp =>
        \A k \in 1..Len(data) :
            data[k].temperature =
                OwnTemp(((k - 1) % Len(sensors)) + 1, (k - 1) \div Len(sensors))

\* The same for the generator that keeps the state in a slice.
C11_IndexedOnly == variant = "indexed" => C11_IndependentByIndex

\* The state of a source k draws after state s.
RECURSIVE SourceAfter(_, _)
SourceAfter(s, k) == IF k = 0 THEN s ELSE SourceStep(SourceAfter(s, k - 1))

\* The draws a call gets when no other call runs: those that follow the
\* state its source had when the call began.
DrawsAlone(r) ==
    [k \in 1..Len(rnd.runs[r].draws) |->
        SourceFloat64(SourceAfter(rnd.runs[r].first, k))]

\* C12: every call of GenerateTemperatureReadings draws from a random source
\* made and seeded inside the call, and shares no random state with another
\* call: interleaved with another call it gets the draws it gets alone.
C12_SourcePerCall ==
    \A r \in Runs :
        rnd.runs[r].at # "idle" =>
            /\ rnd.runs[r].created
            /\ rnd.runs[r].draws = DrawsAlone(r)

\* The second half alone: the draws of a call are those it gets alone.
C12_DrawsAsAlone ==
    \A r \in Runs : rnd.runs[r].at # "idle" => rnd.runs[r].draws = DrawsAlone(r)

\* Both for the generator that seeds a source per call.
C12_IndexedOnly == variant = "indexed" => C12_SourcePerCall

\* How far a run has come: before the load, loaded, generating, generated,
\* ended (saved, failed, or aborted by a panic).
Stage(p) ==
    CASE p = "start" -> 0
      [] p = "loaded" -> 1
      [] p \in {"loop", "inner"} -> 2
      [] p = "generated" -> 3
      [] OTHER -> 4

\* C13: the command-line run executes load, generate, save in this order,
\* each at most once; a failure of a stage (the load fails or finds no
\* sensor, the generator fails, the write fails) ends the run at once: no
\* later stage executes and nothing is retried.
C13_StagesInOrder ==
    /\ [](entry = "cli" =>
            /\ loadErr # Nil =>
                 pc = "failed" /\ sensorTemps = <<>> /\ data = <<>> /\ ~sink.called
            /\ Stage(pc) >= 1 => loadErr = Nil \/ pc = "failed"
            /\ (Stage(pc) >= 2 /\ loadErr = Nil) => Len(sensors) > 0
            /\ sink.called => (loadErr = Nil /\ genErr = Nil /\ Stage(pc) = 4
                                 /\ ~LoopContinues(loopCount, cfg.totalReadings))
            /\ sink.err # Nil => pc = "failed"
            /\ pc = "done" => (sink.called /\ sink.err = Nil)
            /\ pc = "panic" => ~sink.called)
    /\ [][entry = "cli" =>
            /\ Stage(pc') >= Stage(pc)
            /\ Stage(pc) = 4 => UNCHANGED vars
            /\ Stage(pc') > Stage(pc) => Stage(pc') \in {Stage(pc) + 1, 4}
            /\ sink' # sink => (~sink.called /\ pc = "generated")
            /\ (Stage(pc) < 2 /\ Stage(pc') = 2) => data' = <<>>]_vars

\* A run whose save failed after a generation of two readings or more.
C13_Witness ==
    /\ entry = "cli"
    /\ pc = "failed"
    /\ loadErr = Nil
    /\ sink.called
    /\ sink.err = ErrNewline
    /\ Len(data) >= 2

\* The steps the generator has left before it returns: per tick to come its
\* head and one reading per sensor, then the return.
Remaining ==
    LET n == Len(sensors) IN
    CASE pc = "loop" -> (cfg.totalReadings - loopCount) * (n + 1) + 1
      [] pc = "inner" -> (cfg.totalReadings - loopCount - 1) * (n + 1) + (n - idx + 1) + 1
      [] OTHER -> 0

\* C14: for every validated input (totalReadings >= 0, minTemp <= maxTemp)
\* GenerateTemperatureReadings terminates after exactly totalReadings ticks
\* and returns a nil error: it neither panics, nor blocks, nor returns early,
\* and every step brings the return one step nearer.
C14_Terminates ==
    /\ [](ValidInput =>
            /\ pc # "panic"
            /\ pc \in {"loaded", "loop", "inner"} =>
                 ENABLED (GenerateBegin \/ Tick \/ Emit \/ GenerateReturn)
            /\ pc \in {"loop", "inner"} =>
                 (0 <= loopCount /\ loopCount <= cfg.totalReadings /\ Remaining >= 1)
            /\ pc = "inner" => loopCount < cfg.totalReadings
            /\ Generated => (loopCount = cfg.totalReadings /\ genErr = Nil))
    /\ [][(ValidInput /\ pc \in {"loop", "inner"}) =>
            (pc' \in {"loop", "inner", "generated"} /\ Remaining' = Remaining - 1)]_vars

\* A call with two sensors and three ticks or more that has returned.
C14_Witness ==
    /\ ValidInput
    /\ pc = "generated"
    /\ genErr = Nil
    /\ Len(sensors) = 2
    /\ cfg.totalReadings >= 3
    /\ loopCount = cfg.totalReadings
    /\ producedAt[Len(producedAt)] = cfg.totalReadings - 1

\* C15: the generator never changes the sensors it was given, and the sensor
\* field of every reading equals the input sensor at the index the reading
\* was produced for.
C15_SensorsUntouched ==
    /\ []((loadErr = Nil /\ pc # "start") =>
            /\ sensors = source.sensors
            /\ \A k \in 1..Len(data) :
                 data[k].sensor = source.sensors[((k - 1) % Len(source.sensors)) + 1])
    /\ [][(pc \in {"loaded", "loop", "inner"}) => (sensors' = sensors)]_vars

\* Two sensors of the same name, told apart in the readings of two ticks.
C15_Witness ==
    /\ Generated
    /\ source.sensors = <<SensorA, SensorA2>>
    /\ Len(data) >= 4
    /\ data[2].sensor = SensorA2
    /\ data[3].sensor = SensorA
    /\ sensors = <<SensorA, SensorA2>>

\* Readings j and k are of the same sensor state: the same index of the
\* slice, or the same name in the map.
SameState(j, k) ==
    IF variant = "indexed"
    THEN (k - j) % Len(sensors) = 0
    ELSE data[j].sensor.name = data[k].sensor.name

\* The temperature the state of reading k's sensor held when the reading was
\* computed: that of the last reading before it on the same state, or
\* startingTemp.
Before(k) ==
    LET js == {j \in 1..(k - 1) : SameState(j, k)} IN
    IF js = {} THEN cfg.startingTemp
    ELSE data[CHOOSE j \in js : \A i \in js : i <= j].temperature

\* The clamp left reading k as computed.
Unclamped(k) ==
    cfg.minTemp < data[k].temperature /\ data[k].temperature < cfg.maxTemp

\* C16: at tick t (from 0) the ramp phase is active exactly when
\* t mod 60 < 5: the ramp increment is added to the temperature at those
\* ticks and at no other (seen in every reading the clamp left as computed).
C16_RampTicks ==
    /\ pc = "inner" => (increasePhase <=> loopCount % 60 < 5)
    /\ \A k \in 1..Len(data) :
        Unclamped(k) =>
            data[k].temperature - Before(k) - fluctuations[k] =
                (IF producedAt[k] % 60 < 5 THEN cfg.maxTempIncrease \div 5 ELSE 0)

\* A run through the first hour and the ramp of the second: flat at tick 59,
\* rising at ticks 60 and 64, flat again at tick 65.
C16_Witness ==
    /\ pc = "generated"
    /\ Len(sensors) = 1
    /\ cfg.maxTempIncrease = 250
    /\ Len(data) >= 66
    /\ \A k \in 1..66 : Unclamped(k)
    /\ data[5].temperature - data[4].temperature = 50
    /\ data[6].temperature = data[5].temperature
    /\ data[60].temperature = data[59].temperature
    /\ data[61].temperature - data[60].temperature = 50
    /\ data[65].temperature - data[64].temperature = 50
    /\ data[66].temperature = data[65].temperature

\* The temperature emitted for the sensor at index i at tick t; before the
\* first tick, startingTemp.
TempAt(i, t) ==
    IF t < 0 THEN cfg.startingTemp ELSE data[t * Len(sensors) + i].temperature

\* C17: the increment of a ramp tick is maxTempIncrease / 5: with zero
\* fluctuation and no clamping the temperature of a sensor rises by exactly
\* maxTempIncrease over the ticks 0..4 of each hour of 60 ticks and does not
\* change over the ticks 5..59.
C17_RiseIsMaxIncrease ==
    (cfg.tempFluctuation = 0 /\ \A k \in 1..Len(data) : Unclamped(k)) =>
        \A k \in 1..Len(data) :
            LET t == producedAt[k]
                i == ((k - 1) % Len(sensors)) + 1
            IN /\ t % 60 < 5 =>
                    TempAt(i, t) - TempAt(i, t - 1) = cfg.maxTempIncrease \div 5
               /\ t % 60 = 4 => TempAt(i, t) - TempAt(i, t - 5) = cfg.maxTempIncrease
               /\ t % 60 >= 5 => TempAt(i, t) = TempAt(i, t - 1)

\* The same where no two sensors share a state.
C17_SeparateStates ==
    (variant = "indexed" \/ sensors # <<SensorA, SensorA2>>) => C17_RiseIsMaxIncrease

\* C18: for every tick and every sensor the emitted temperature is
\* clamp(previous temperature of that sensor + f + r, minTemp, maxTemp), with
\* f one fluctuation drawn for that sensor at that tick,
\* -tempFluctuation <= f <= +tempFluctuation, and r the ramp increment when
\* the ramp phase is active and 0 otherwise: both are applied before the clamp
\* (stated for minTemp <= maxTemp).
C18_ClampOfSum ==
    cfg.minTemp <= cfg.maxTemp =>
        /\ Len(fluctuations) = Len(data)
        /\ \A k \in 1..Len(data) :
            LET t == producedAt[k]
                i == ((k - 1) % Len(sensors)) + 1
                f == fluctuations[k]
                r == IF t % 60 < 5 THEN cfg.maxTempIncrease \div 5 ELSE 0
            IN /\ 0 - cfg.tempFluctuation <= f
               /\ f <= cfg.tempFluctuation
               /\ data[k].temperature =
                    Clamp(TempAt(i, t - 1) + f + r, cfg.minTemp, cfg.maxTemp)

\* The same where no two sensors share a state.
C18_SeparateStates ==
    (variant = "indexed" \/ sensors # <<SensorA, SensorA2>>) => C18_ClampOfSum

\* C19: the current temperature of each sensor is seeded to startingTemp and
\* updated once per tick: after every tick the stored state of a sensor is
\* the temperature of the reading just emitted for it, and so lies in
\* [minTemp, maxTemp] from the first tick on, also when startingTemp does not
\* (stated for minTemp <= maxTemp).
C19_StateIsLastReading ==
    /\ (pc = "loop" /\ loopCount = 0) =>
            \A i \in 1..Len(sensors) : sensorTemps[StateKey(i)] = cfg.startingTemp
    /\ (pc \in {"loop", "generated"} /\ loopCount >= 1 /\ cfg.minTemp <= cfg.maxTemp) =>
            \A i \in 1..Len(sensors) :
                /\ sensorTemps[StateKey(i)] = TempAt(i, loopCount - 1)
                /\ cfg.minTemp <= sensorTemps[StateKey(i)]
                /\ sensorTemps[StateKey(i)] <= cfg.maxTemp

\* The same where no two sensors share a state.
C19_SeparateStates ==
    (variant = "indexed" \/ sensors # <<SensorA, SensorA2>>) => C19_StateIsLastReading

\* The wall clock when the run begins, in whole seconds.
StartSeconds == Format(TickInstants)

\* C20: in every tick the clock is advanced before any reading of the tick
\* is emitted, and exactly once per tick: by 60 simulated seconds without
\* blocking in simulate mode, by one block of 60 seconds followed by one
\* sample of the wall clock otherwise; all readings of a tick carry the same
\* time stamp.
C20_ClockPerTick ==
    /\ [](/\ \A j, k \in 1..Len(data) :
               producedAt[j] = producedAt[k] => data[j].time = data[k].time
          /\ \A k \in 1..Len(data) :
               data[k].time =
                 IF cfg.simulate
                 THEN StartSeconds + 60 * (producedAt[k] + 1)
                 ELSE (2 * StartSeconds + (2 * 60 + overrun) * (producedAt[k] + 1)) \div 2
          /\ cfg.simulate => now = 2 * StartSeconds)
    /\ [][/\ (pc = "loop" /\ (pc' = "inner" \/ loopCount' # loopCount)) =>
               /\ data' = data
               /\ IF cfg.simulate
                  THEN currentTime' = currentTime + 2 * 60 /\ now' = now
                  ELSE now' >= now + 2 * 60 /\ currentTime' = now'
          /\ pc = "inner" =>
               /\ currentTime' = currentTime
               /\ now' = now
               /\ Len(data') = Len(data) + 1 =>
                    data'[Len(data')].time = Format(currentTime)]_vars

\* A real-time run of two sensors whose ticks take 60.5 seconds: the two
\* readings of a tick share a stamp, the next tick's is 61 seconds later.
C20_Witness ==
    /\ ~cfg.simulate
    /\ overrun = 1
    /\ Len(sensors) = 2
    /\ Len(data) >= 4
    /\ data[1].time = data[2].time
    /\ data[3].time = data[4].time
    /\ data[3].time = data[1].time + 61

\* C21 as stated: the temperature held by every reading the generator emits
\* is rounded to 2 decimals: it is a whole number of hundredths.
C21_HeldRounded ==
    \A k \in 1..Len(data) : data[k].temperature % 2 = 0

\* C21, amended: the rounding to 2 decimals is done when a reading is
\* written, not when it is emitted: every temperature in the output file is
\* the whole number of hundredths nearest to the temperature the reading
\* holds (a tie goes to the even hundredth), and it is that temperature
\* itself when the reading holds a whole number of hundredths.
C21_RoundedWhenWritten ==
    \A p \in 1..Len(sink.file) :
        sink.file[p][1] = "obj" =>
            LET h == sink.file[p][2].temperature
                t == data[(p + 1) \div 2].temperature
            IN /\ p % 2 = 1
               /\ 2 * h - t \in {0 - 1, 0, 1}
               /\ t % 2 = 0 => 2 * h = t
               /\ t % 2 = 1 => h % 2 = 0

\* A file with a temperature rounded down to the even hundredth and one
\* rounded up to it, from readings that hold a third decimal.
C21_Witness ==
    /\ sink.called
    /\ \E p \in 1..Len(sink.file) :
        /\ sink.file[p][1] = "obj"
        /\ 2 * sink.file[p][2].temperature = data[(p + 1) \div 2].temperature - 1
    /\ \E p \in 1..Len(sink.file) :
        /\ sink.file[p][1] = "obj"
        /\ 2 * sink.file[p][2].temperature = data[(p + 1) \div 2].temperature + 1

\* C22: for every totalReadings <= 0, negative ones with a non-empty sensor
\* list included, the generator returns normally, without a panic, with an
\* empty sequence and a nil error.
C22_NonPositiveReturnsEmpty ==
    (GenCalled /\ cfg.totalReadings <= 0) =>
        /\ pc # "panic"
        /\ pc # "inner"
        /\ data = <<>>
        /\ pc = "loop" => ENABLED GenerateReturn
        /\ Generated => genErr = Nil

\* The same for the generator that appends to a nil slice, and for zero
\* readings in either generator.
C22_WithoutPreallocation ==
    (variant = "named" \/ cfg.totalReadings = 0) => C22_NonPositiveReturnsEmpty

\* C23: on every entry path, the command line and the HTTP handler, a
\* configuration with zero sensors is rejected with an error before the
\* generator is called: generation never starts with an empty sensor list.
C23_NeverEmptySensors ==
    /\ GenCalled => Len(sensors) > 0
    /\ (pc # "start" /\ source.kind = "ok" /\ Len(source.sensors) = 0) =>
            (loadErr # Nil /\ pc = "failed")

\* The same for the command-line path alone.
C23_CommandLine == entry = "cli" => C23_NeverEmptySensors

\* C24: with tempFluctuation = 0, maxTempIncrease >= 0 and
\* minTemp <= startingTemp <= maxTemp the temperatures emitted for a sensor
\* never decrease from one tick to the next, and a sensor that has reached
\* maxTemp stays at maxTemp at every later tick.
C24_NeverCools ==
    (/\ cfg.tempFluctuation = 0
     /\ cfg.maxTempIncrease >= 0
     /\ cfg.minTemp <= cfg.startingTemp
     /\ cfg.startingTemp <= cfg.maxTemp) =>
        \A k \in 1..Len(data) :
            LET t == producedAt[k]
                i == ((k - 1) % Len(sensors)) + 1
            IN /\ TempAt(i, t) >= TempAt(i, t - 1)
               /\ \A s \in 0..(t - 1) :
                    TempAt(i, s) = cfg.maxTemp => TempAt(i, t) = cfg.maxTemp

\* A run of more than an hour that rises to maxTemp in its first ramp and is
\* still there after the flat ticks and the second ramp.
C24_Witness ==
    /\ pc = "generated"
    /\ cfg.tempFluctuation = 0
    /\ cfg.minTemp <= cfg.startingTemp
    /\ cfg.startingTemp < cfg.maxTemp
    /\ Len(sensors) = 2
    /\ Len(data) >= 2 * 66
    /\ data[1].temperature < cfg.maxTemp
    /\ \E k \in 1..10 : data[k].temperature = cfg.maxTemp
    /\ data[Len(data)].temperature = cfg.maxTemp
    /\ data[Len(data) - 1].temperature = cfg.maxTemp
====
